---- MODULE Spec2Model ----
(***************************************************************************)
(* Subscription reward economy (SubscriptionModel of src/src/index.ts):    *)
(* the admission algorithm, the reward and ROI queries and the month by    *)
(* month scenario driver.                                                  *)
(*                                                                         *)
(* JavaScript numbers are modelled as exact rationals extended with        *)
(* +Infinity, -Infinity and NaN (what a division by zero produces);        *)
(* floating-point rounding is not modelled.                                *)
(***************************************************************************)
EXTENDS Integers, Sequences, FiniteSets, TLC

VARIABLES
    tier,     \* TierConfig, fixed at construction
    curve,    \* CurveConfig, fixed at construction
    fees,     \* FeeConfig, fixed at construction
    state,    \* this.state : SubscriptionState
    log,      \* history: the addSubscriber calls made since this.state was created
    call,     \* the last public call: its name, arguments and return value
    sim,      \* simulateScenario's frame: position, arguments, locals, results,
              \* and (history) whether the state it replaced held subscribers
    firstRun  \* history: arguments and result of the first completed scenario run

vars == <<tier, curve, fees, state, log, call, sim, firstRun>>

(***************************************************************************)
(* Numbers                                                                 *)
(***************************************************************************)
Abs(n) == IF n < 0 THEN -n ELSE n

Sign(n) == IF n < 0 THEN -1 ELSE IF n > 0 THEN 1 ELSE 0

RECURSIVE GCD(_, _)
GCD(a, b) == IF b = 0 THEN a ELSE GCD(b, a % b)

\* num/den in lowest terms, den >= 0; den = 0 is Infinity (num = 1),
\* -Infinity (num = -1) or NaN (num = 0).
Norm(n, d) ==
    IF d = 0 THEN [num |-> Sign(n), den |-> 0]
    ELSE LET g == GCD(Abs(n), Abs(d))
             s == IF d < 0 THEN -1 ELSE 1
         IN  [num |-> s * (n \div g), den |-> s * (d \div g)]

RInt(n) == [num |-> n, den |-> 1]

Zero == RInt(0)

NaN == [num |-> 0, den |-> 0]

IsNaN(a) == a.num = 0 /\ a.den = 0

IsFinite(a) == a.den # 0

RNeg(a) == [num |-> -a.num, den |-> a.den]

RAdd(a, b) ==
    IF a.den = 0 \/ b.den = 0
    THEN IF IsNaN(a) \/ IsNaN(b) THEN NaN
         ELSE IF a.den = 0 /\ b.den = 0
              THEN (IF a.num = b.num THEN a ELSE NaN)
              ELSE IF a.den = 0 THEN a ELSE b
    ELSE LET g == GCD(a.den, b.den)
         IN  Norm(a.num * (b.den \div g) + b.num * (a.den \div g),
                  (a.den \div g) * b.den)

RSub(a, b) == RAdd(a, RNeg(b))

RMul(a, b) ==
    IF a.den = 0 \/ b.den = 0
    THEN [num |-> Sign(a.num) * Sign(b.num), den |-> 0]
    ELSE LET g1 == GCD(Abs(a.num), b.den)
             g2 == GCD(Abs(b.num), a.den)
         IN  [num |-> (a.num \div g1) * (b.num \div g2),
              den |-> (a.den \div g2) * (b.den \div g1)]

\* 1 / b: 1/0 is Infinity, 1/Infinity is 0, 1/NaN is NaN
RInv(b) ==
    IF b.num = 0 THEN (IF b.den = 0 THEN NaN ELSE [num |-> 1, den |-> 0])
    ELSE IF b.num > 0 THEN [num |-> b.den, den |-> b.num]
    ELSE [num |-> -b.den, den |-> -b.num]

RDiv(a, b) == RMul(a, RInv(b))

RLt(a, b) ==
    /\ ~IsNaN(a)
    /\ ~IsNaN(b)
    /\ IF a.den = 0 /\ b.den = 0 THEN a.num < b.num
       ELSE RSub(a, b).num < 0

RLe(a, b) == ~IsNaN(a) /\ ~IsNaN(b) /\ (a = b \/ RLt(a, b))

\* Math.max
RMax(a, b) ==
    IF IsNaN(a) \/ IsNaN(b) THEN NaN ELSE IF RLt(a, b) THEN b ELSE a

\* Math.pow with an integer exponent k >= 0
RECURSIVE RPow(_, _)
RPow(b, k) == IF k <= 0 THEN RInt(1) ELSE RMul(b, RPow(b, k - 1))

\* Math.floor of a finite number
RFloor(a) == a.num \div a.den

(***************************************************************************)
(* Program constants                                                       *)
(***************************************************************************)
ONE_MONTH_DAYS == 30

ONE_MONTH_SECONDS == ONE_MONTH_DAYS * 24 * 60 * 60

MAX_BPS == 10000

AVG_SUB_MONTHS == 12

INITIAL_SUBSCRIBERS == 50

testAddress == "test-subscriber"

(***************************************************************************)
(* Economics engine                                                        *)
(***************************************************************************)
\* A Map: its entries and its keys in insertion order (the order forEach
\* visits them in).
EmptyMap == [order |-> << >>, entry |-> << >>]

\* Map.has
MapHas(m, k) == k \in DOMAIN m.entry

\* Map.set that leaves the value of a key already present
MapSet_keepFirst(m, k, v) ==
    [order |-> IF MapHas(m, k) THEN m.order ELSE Append(m.order, k),
     entry |-> [x \in (DOMAIN m.entry) \cup {k} |->
                   IF x \in DOMAIN m.entry THEN m.entry[x] ELSE v]]

\* Map.set: a key already present keeps its place in the order
MapSet(m, k, v) ==
    [order |-> IF MapHas(m, k) THEN m.order ELSE Append(m.order, k),
     entry |-> [x \in (DOMAIN m.entry) \cup {k} |-> IF x = k THEN v ELSE m.entry[x]]]

\* Map.size
MapSize(m) == Len(m.order)

getInitialState ==
    [subscribers      |-> EmptyMap,
     rewardPool       |-> Zero,
     totalShares      |-> Zero,
     creatorBalance   |-> Zero,
     protocolEarnings |-> Zero,
     clientEarnings   |-> Zero]

\* calculateMultiplier with > for >= at the end of the curve
calculateMultiplier_gt(timestamp) ==
    LET periodsElapsed ==
            (timestamp - curve.startTimestamp) \div ONE_MONTH_SECONDS
    IN  IF periodsElapsed > curve.numPeriods
        THEN curve.minMultiplier
        ELSE RMax(RPow(curve.formulaBase, curve.numPeriods - periodsElapsed),
                  curve.minMultiplier)

calculateMultiplier(timestamp) ==
    LET periodsElapsed ==
            (timestamp - curve.startTimestamp) \div ONE_MONTH_SECONDS
    IN  IF periodsElapsed >= curve.numPeriods
        THEN curve.minMultiplier
        ELSE RMax(RPow(curve.formulaBase, curve.numPeriods - periodsElapsed),
                  curve.minMultiplier)

\* The constants addSubscriber computes before it changes the state, each as
\* an operator of what it is computed from.
subscriptionMonthsOf(subscriptionDays) ==
    RDiv(RInt(subscriptionDays), RInt(ONE_MONTH_DAYS))

subscriptionSecondsOf(subscriptionDays) ==
    RMul(subscriptionMonthsOf(subscriptionDays), RInt(ONE_MONTH_SECONDS))

paymentOf(subscriptionDays) ==
    RAdd(RInt(tier.initialMintPrice),
         RMul(subscriptionMonthsOf(subscriptionDays), RInt(tier.pricePerPeriod)))

protocolFeeOf(payment) ==
    RDiv(RMul(payment, RInt(fees.protocolBps)), RInt(MAX_BPS))

clientFeeOf(payment) ==
    RDiv(RMul(payment, RInt(fees.clientBps)), RInt(MAX_BPS))

\* netPaymentOf without the client's fee taken off
netPaymentOf_lessProtocolOnly(payment) ==
    RSub(payment, protocolFeeOf(payment))

netPaymentOf(payment) ==
    RSub(RSub(payment, protocolFeeOf(payment)), clientFeeOf(payment))

rewardAmountOf(netPayment) ==
    RDiv(RMul(netPayment, RInt(tier.rewardBasisPoints)), RInt(MAX_BPS))

\* sharesOf without the scaling by the subscription's length
sharesOf_unscaled(rewardAmount, multiplier, subscriptionMonths) ==
    RMul(rewardAmount, multiplier)

\* shares = rewardAmount * multiplier * (subscriptionMonths / 12)
sharesOf(rewardAmount, multiplier, subscriptionMonths) ==
    RMul(RMul(rewardAmount, multiplier), RDiv(subscriptionMonths, RInt(12)))

\* admit with rewardPool = rewardAmount for rewardPool += rewardAmount
admit_assign(s, address, timestamp, subscriptionSeconds, payment, protocolFee, clientFee, netPayment, rewardAmount, shares) ==
    [subscribers |->
         MapSet(s.subscribers, address,
                [tierId            |-> 1,
                 subscriptionStart |-> timestamp,
                 expiresAt         |-> RAdd(RInt(timestamp), subscriptionSeconds),
                 rewardShares      |-> shares,
                 totalSpent        |-> payment]),
     totalShares      |-> RAdd(s.totalShares, shares),
     rewardPool       |-> rewardAmount,
     creatorBalance   |-> RAdd(s.creatorBalance, RSub(netPayment, rewardAmount)),
     protocolEarnings |-> RAdd(s.protocolEarnings, protocolFee),
     clientEarnings   |-> RAdd(s.clientEarnings, clientFee)]

\* admit with creatorBalance -= ... for creatorBalance += ...
admit_minus(s, address, timestamp, subscriptionSeconds, payment, protocolFee, clientFee, netPayment, rewardAmount, shares) ==
    [subscribers |->
         MapSet(s.subscribers, address,
                [tierId            |-> 1,
                 subscriptionStart |-> timestamp,
                 expiresAt         |-> RAdd(RInt(timestamp), subscriptionSeconds),
                 rewardShares      |-> shares,
                 totalSpent        |-> payment]),
     totalShares      |-> RAdd(s.totalShares, shares),
     rewardPool       |-> RAdd(s.rewardPool, rewardAmount),
     creatorBalance   |-> RSub(s.creatorBalance, RSub(netPayment, rewardAmount)),
     protocolEarnings |-> RAdd(s.protocolEarnings, protocolFee),
     clientEarnings   |-> RAdd(s.clientEarnings, clientFee)]

\* this.state.subscribers.set(...) and the five increments
admit(s, address, timestamp, subscriptionSeconds, payment, protocolFee, clientFee, netPayment, rewardAmount, shares) ==
    [subscribers |->
         MapSet(s.subscribers, address,
                [tierId            |-> 1,
                 subscriptionStart |-> timestamp,
                 expiresAt         |-> RAdd(RInt(timestamp), subscriptionSeconds),
                 rewardShares      |-> shares,
                 totalSpent        |-> payment]),
     totalShares      |-> RAdd(s.totalShares, shares),
     rewardPool       |-> RAdd(s.rewardPool, rewardAmount),
     creatorBalance   |-> RAdd(s.creatorBalance, RSub(netPayment, rewardAmount)),
     protocolEarnings |-> RAdd(s.protocolEarnings, protocolFee),
     clientEarnings   |-> RAdd(s.clientEarnings, clientFee)]

addSubscriber(s, address, timestamp, subscriptionDays) ==
    admit(s, address, timestamp,
          subscriptionSecondsOf(subscriptionDays),
          paymentOf(subscriptionDays),
          protocolFeeOf(paymentOf(subscriptionDays)),
          clientFeeOf(paymentOf(subscriptionDays)),
          netPaymentOf(paymentOf(subscriptionDays)),
          rewardAmountOf(netPaymentOf(paymentOf(subscriptionDays))),
          sharesOf(rewardAmountOf(netPaymentOf(paymentOf(subscriptionDays))),
                   calculateMultiplier(timestamp),
                   subscriptionMonthsOf(subscriptionDays)))

\* calculateRewards without the check of subscriptionStart
calculateRewards_noStart(s, address, currentTimestamp) ==
    IF ~MapHas(s.subscribers, address) THEN Zero
    ELSE RMul(s.rewardPool,
              RDiv(s.subscribers.entry[address].rewardShares, s.totalShares))

\* calculateRewards returning 0 at the subscriptionStart itself as well
calculateRewards_atStart(s, address, currentTimestamp) ==
    IF ~MapHas(s.subscribers, address) THEN Zero
    ELSE LET subscriber == s.subscribers.entry[address]
         IN  IF currentTimestamp <= subscriber.subscriptionStart THEN Zero
             ELSE LET sharePercentage == RDiv(subscriber.rewardShares, s.totalShares)
                  IN  RMul(s.rewardPool, sharePercentage)

calculateRewards(s, address, currentTimestamp) ==
    IF ~MapHas(s.subscribers, address) THEN Zero
    ELSE LET subscriber == s.subscribers.entry[address]
         IN  IF currentTimestamp < subscriber.subscriptionStart THEN Zero
             ELSE LET sharePercentage == RDiv(subscriber.rewardShares, s.totalShares)
                  IN  RMul(s.rewardPool, sharePercentage)

\* calculateROI with roi = (rewards / spent) * 100 - 1
calculateROI_scaledFirst(s, address, currentTimestamp) ==
    IF ~MapHas(s.subscribers, address)
    THEN [roi |-> Zero, spent |-> Zero, rewards |-> Zero]
    ELSE LET subscriber == s.subscribers.entry[address]
             rewards    == calculateRewards(s, address, currentTimestamp)
         IN  [roi     |-> RSub(RMul(RDiv(rewards, subscriber.totalSpent), RInt(100)),
                               RInt(1)),
              spent   |-> subscriber.totalSpent,
              rewards |-> rewards]

calculateROI(s, address, currentTimestamp) ==
    IF ~MapHas(s.subscribers, address)
    THEN [roi |-> Zero, spent |-> Zero, rewards |-> Zero]
    ELSE LET subscriber == s.subscribers.entry[address]
             rewards    == calculateRewards(s, address, currentTimestamp)
         IN  [roi     |-> RMul(RSub(RDiv(rewards, subscriber.totalSpent), RInt(1)),
                               RInt(100)),
              spent   |-> subscriber.totalSpent,
              rewards |-> rewards]

\* The history's entry for an addSubscriber call: who called, the arguments,
\* the multiplier calculateMultiplier returned to it, the map's size after it.
LogEntry(by, address, timestamp, subscriptionDays, sizeAfter) ==
    [by               |-> by,
     address          |-> address,
     timestamp        |-> timestamp,
     subscriptionDays |-> subscriptionDays,
     multiplier       |-> calculateMultiplier(timestamp),
     sizeAfter        |-> sizeAfter]

(***************************************************************************)
(* Scenario simulator                                                      *)
(***************************************************************************)
\* `subscriber-${n}`
subscriberAddress(n) == "subscriber-" \o ToString(n)

\* simulateScenario without the reset
resetState_keep(s) == s

\* this.state = this.getInitialState()
resetState(s) == getInitialState

\* i < INITIAL_SUBSCRIBERS
cohortContinues(i) == i < INITIAL_SUBSCRIBERS

\* let currentSubs = this.state.subscribers.size
initialCurrentSubs(s) == MapSize(s.subscribers)

\* month < months
loopContinues_lt(month, months) == month < months

\* month <= months
loopContinues(month, months) == month <= months

\* Math.floor(currentSubs * monthlyGrowthRate)
newSubsOf(currentSubs, monthlyGrowthRate) ==
    RFloor(RMul(RInt(currentSubs), monthlyGrowthRate))

\* The forEach over the subscribers, entries lo..hi of the insertion order:
\* the roi and the rewards of every address but the test subscriber's, added
\* up. The code adds them one after the other; exact sums do not depend on
\* the grouping, and halving the range keeps the evaluation shallow.
RECURSIVE sumRoi(_, _, _, _)
sumRoi(s, lo, hi, timestamp) ==
    IF lo > hi THEN Zero
    ELSE IF lo = hi
    THEN (IF s.subscribers.order[lo] # testAddress
          THEN calculateROI(s, s.subscribers.order[lo], timestamp).roi
          ELSE Zero)
    ELSE RAdd(sumRoi(s, lo, (lo + hi) \div 2, timestamp),
              sumRoi(s, (lo + hi) \div 2 + 1, hi, timestamp))

RECURSIVE sumRewards(_, _, _, _)
sumRewards(s, lo, hi, timestamp) ==
    IF lo > hi THEN Zero
    ELSE IF lo = hi
    THEN (IF s.subscribers.order[lo] # testAddress
          THEN calculateROI(s, s.subscribers.order[lo], timestamp).rewards
          ELSE Zero)
    ELSE RAdd(sumRewards(s, lo, (lo + hi) \div 2, timestamp),
              sumRewards(s, (lo + hi) \div 2 + 1, hi, timestamp))

\* the SimulationResult pushed at the end of a month
snapshot(s, month, timestamp) ==
    LET totalRoi         == sumRoi(s, 1, MapSize(s.subscribers), timestamp)
        totalRewards     == sumRewards(s, 1, MapSize(s.subscribers), timestamp)
        regularSubCount  == MapSize(s.subscribers) - 1
        testAnalysis     == calculateROI(s, testAddress, timestamp)
        testRewards      == calculateRewards(s, testAddress, timestamp)
        totalPoolRewards == RAdd(totalRewards, testRewards)
    IN  [month             |-> month,
         subscribers       |-> regularSubCount,
         avgRoi            |-> RDiv(totalRoi, RInt(regularSubCount)),
         creatorEarnings   |-> s.creatorBalance,
         clientEarnings    |-> s.clientEarnings,
         protocolEarnings  |-> s.protocolEarnings,
         subscriberRewards |-> totalPoolRewards,
         testSubscriberRoi |-> testAnalysis.roi]

(***************************************************************************)
(* Bounds and inputs                                                       *)
(***************************************************************************)
\* addSubscriber calls a caller makes on one state
MaxCalls == 2

\* addSubscriber calls a caller makes on one state around scenario runs
MaxPrior == 1

\* the longest scenario, in months
MaxMonths == 2

Curve(numPeriods, formulaBase, minMultiplier) ==
    [numPeriods     |-> numPeriods,
     formulaBase    |-> formulaBase,
     startTimestamp |-> 86400,
     minMultiplier  |-> minMultiplier]

Tier(rewardBasisPoints, initialMintPrice, pricePerPeriod) ==
    [rewardBasisPoints |-> rewardBasisPoints,
     initialMintPrice  |-> initialMintPrice,
     pricePerPeriod    |-> pricePerPeriod]

Fees(protocolBps, clientBps) ==
    [protocolBps |-> protocolBps, clientBps |-> clientBps]

\* The repository's parameters on a short curve; a mint price, no fees, the
\* whole payment to the pool and a floor of 1; fees above 100% with a floor
\* above the base; no reward share.
Configs ==
    { <<Tier(2000, 0, 5),  Curve(2, Norm(6, 5), Zero),    Fees(100, 500)>>,
      <<Tier(10000, 10, 5), Curve(2, RInt(2), RInt(1)),   Fees(0, 0)>>,
      <<Tier(10000, 0, 5), Curve(1, RInt(2), RInt(3)),    Fees(6000, 6000)>>,
      <<Tier(0, 0, 5),     Curve(2, RInt(2), Zero),       Fees(100, 500)>> }

SimConfigs ==
    { <<Tier(2000, 0, 5),  Curve(2, RInt(2), Zero),       Fees(100, 500)>>,
      <<Tier(5000, 10, 5), Curve(3, RInt(2), RInt(1)),    Fees(0, 0)>> }

Addresses == {"alice", "bob"}

QueryAddresses == Addresses \cup {"carol"}

curveEnd == curve.startTimestamp + curve.numPeriods * ONE_MONTH_SECONDS

\* the last second before the curve starts, one period before its end, its end
Timestamps ==
    { curve.startTimestamp - 1,
      curveEnd - ONE_MONTH_SECONDS,
      curveEnd }

\* the last second before the curve's end, its end
QueryTimestamps == {curveEnd - 1, curveEnd}

SubscriptionDays == {360, 720}

GrowthRates == {Zero, Norm(1, 2), RInt(1)}

TestSubscriptionDays == {60}

PriorAddresses == {"alice", testAddress}

(***************************************************************************)
(* State machine                                                           *)
(***************************************************************************)
Idle ==
    [pc                   |-> "idle",
     startTimestamp       |-> 0,
     months               |-> 0,
     monthlyGrowthRate    |-> Zero,
     testSubscriptionDays |-> 0,
     i                    |-> 0,
     month                |-> 0,
     timestamp            |-> 0,
     newSubs              |-> 0,
     currentSubs          |-> 0,
     results              |-> << >>,
     replaced             |-> FALSE]

InitWith(configs) ==
    /\ \E c \in configs : tier = c[1] /\ curve = c[2] /\ fees = c[3]
    /\ state = getInitialState
    /\ log = << >>
    /\ call = [op |-> "constructor"]
    /\ sim = Idle
    /\ firstRun = [done |-> FALSE]

Init == InitWith(Configs)

SimInit == InitWith(SimConfigs)

CallerCalls == Cardinality({i \in DOMAIN log : log[i].by = "caller"})

AddSubscriberCall(address, timestamp, subscriptionDays) ==
    /\ sim.pc = "idle"
    /\ state' = addSubscriber(state, address, timestamp, subscriptionDays)
    /\ log' = Append(log, LogEntry("caller", address, timestamp, subscriptionDays,
                                   MapSize(state'.subscribers)))
    /\ call' = [op |-> "addSubscriber", address |-> address,
                timestamp |-> timestamp, subscriptionDays |-> subscriptionDays]
    /\ UNCHANGED <<tier, curve, fees, sim, firstRun>>

\* calculateRewards paying the rewards out of the pool
CalculateRewardsCall_payout(address, currentTimestamp) ==
    /\ sim.pc = "idle"
    /\ call' = [op |-> "calculateRewards", address |-> address,
                timestamp |-> currentTimestamp,
                ret |-> calculateRewards(state, address, currentTimestamp)]
    /\ state' = [state EXCEPT !.rewardPool = RSub(@, call'.ret)]
    /\ UNCHANGED <<tier, curve, fees, log, sim, firstRun>>

CalculateRewardsCall(address, currentTimestamp) ==
    /\ sim.pc = "idle"
    /\ call' = [op |-> "calculateRewards", address |-> address,
                timestamp |-> currentTimestamp,
                ret |-> calculateRewards(state, address, currentTimestamp)]
    /\ state' = state
    /\ UNCHANGED <<tier, curve, fees, log, sim, firstRun>>

CalculateROICall(address, currentTimestamp) ==
    /\ sim.pc = "idle"
    /\ call' = [op |-> "calculateROI", address |-> address,
                timestamp |-> currentTimestamp,
                ret |-> calculateROI(state, address, currentTimestamp)]
    /\ state' = state
    /\ UNCHANGED <<tier, curve, fees, log, sim, firstRun>>

\* simulateScenario is entered: this.state = this.getInitialState()
SimBegin(startTimestamp, months, monthlyGrowthRate, testSubscriptionDays) ==
    /\ sim.pc = "idle"
    /\ state' = resetState(state)
    /\ log' = << >>
    /\ sim' = [Idle EXCEPT !.pc = "cohort",
                           !.startTimestamp = startTimestamp,
                           !.months = months,
                           !.monthlyGrowthRate = monthlyGrowthRate,
                           !.testSubscriptionDays = testSubscriptionDays,
                           !.replaced = MapSize(state.subscribers) > 0]
    /\ call' = [op |-> "simulateScenario:reset"]
    /\ UNCHANGED <<tier, curve, fees, firstRun>>

\* an addSubscriber call made by simulateScenario
SimAdmit(address, timestamp, subscriptionDays) ==
    /\ state' = addSubscriber(state, address, timestamp, subscriptionDays)
    /\ log' = Append(log, LogEntry("simulateScenario", address, timestamp,
                                   subscriptionDays, MapSize(state'.subscribers)))
    /\ call' = [op |-> "simulateScenario:addSubscriber"]

\* one iteration of the loop over the initial cohort
SimAddInitial ==
    /\ sim.pc = "cohort"
    /\ cohortContinues(sim.i)
    /\ SimAdmit(subscriberAddress(sim.i + 1), sim.startTimestamp,
                AVG_SUB_MONTHS * ONE_MONTH_DAYS)
    /\ sim' = [sim EXCEPT !.i = @ + 1]
    /\ UNCHANGED <<tier, curve, fees, firstRun>>

\* the test subscriber, results = [] and currentSubs
SimAddTest ==
    /\ sim.pc = "cohort"
    /\ ~cohortContinues(sim.i)
    /\ SimAdmit(testAddress, sim.startTimestamp, sim.testSubscriptionDays)
    /\ sim' = [sim EXCEPT !.pc = "loop",
                          !.month = 1,
                          !.results = << >>,
                          !.currentSubs = initialCurrentSubs(state')]
    /\ UNCHANGED <<tier, curve, fees, firstRun>>

\* the head of a month's iteration: timestamp and newSubs
SimMonthBegin ==
    /\ sim.pc = "loop"
    /\ loopContinues(sim.month, sim.months)
    /\ sim' = [sim EXCEPT
                 !.pc = "month",
                 !.i = 0,
                 !.timestamp = sim.startTimestamp + sim.month * ONE_MONTH_SECONDS,
                 !.newSubs = newSubsOf(sim.currentSubs, sim.monthlyGrowthRate)]
    /\ call' = [op |-> "simulateScenario:month"]
    /\ UNCHANGED <<tier, curve, fees, state, log, firstRun>>

\* SimAddNew naming the newcomer by the loop's index, as the cohort is named
SimAddNew_byIndex ==
    /\ sim.pc = "month"
    /\ sim.i < sim.newSubs
    /\ SimAdmit(subscriberAddress(sim.i + 1), sim.timestamp,
                AVG_SUB_MONTHS * ONE_MONTH_DAYS)
    /\ sim' = [sim EXCEPT !.i = @ + 1]
    /\ UNCHANGED <<tier, curve, fees, firstRun>>

\* one iteration of the loop over the month's new subscribers
SimAddNew ==
    /\ sim.pc = "month"
    /\ sim.i < sim.newSubs
    /\ SimAdmit(subscriberAddress(MapSize(state.subscribers) + 1), sim.timestamp,
                AVG_SUB_MONTHS * ONE_MONTH_DAYS)
    /\ sim' = [sim EXCEPT !.i = @ + 1]
    /\ UNCHANGED <<tier, curve, fees, firstRun>>

\* the month's metrics, results.push and currentSubs = regularSubCount
SimSnapshot ==
    /\ sim.pc = "month"
    /\ ~(sim.i < sim.newSubs)
    /\ LET result == snapshot(state, sim.month, sim.timestamp)
       IN  sim' = [sim EXCEPT !.pc = "loop",
                              !.results = Append(@, result),
                              !.currentSubs = result.subscribers,
                              !.month = @ + 1]
    /\ call' = [op |-> "simulateScenario:snapshot"]
    /\ UNCHANGED <<tier, curve, fees, state, log, firstRun>>

\* return results
SimReturn ==
    /\ sim.pc = "loop"
    /\ ~loopContinues(sim.month, sim.months)
    /\ call' = [op |-> "simulateScenario",
                startTimestamp       |-> sim.startTimestamp,
                months               |-> sim.months,
                monthlyGrowthRate    |-> sim.monthlyGrowthRate,
                testSubscriptionDays |-> sim.testSubscriptionDays,
                ret                  |-> sim.results,
                replaced             |-> sim.replaced]
    /\ firstRun' = IF firstRun.done THEN firstRun
                   ELSE [done |-> TRUE, call |-> call']
    /\ sim' = Idle
    /\ UNCHANGED <<tier, curve, fees, state, log>>

Admissions ==
    /\ CallerCalls < MaxCalls
    /\ \E address \in Addresses, timestamp \in Timestamps,
          subscriptionDays \in SubscriptionDays :
          AddSubscriberCall(address, timestamp, subscriptionDays)

Queries ==
    \E address \in QueryAddresses, currentTimestamp \in QueryTimestamps :
        \/ CalculateRewardsCall(address, currentTimestamp)
        \/ CalculateROICall(address, currentTimestamp)

Next == Admissions \/ Queries

Spec == Init /\ [][Next]_vars

PriorAdmissions ==
    /\ CallerCalls < MaxPrior
    /\ \E address \in PriorAddresses :
          AddSubscriberCall(address, curve.startTimestamp,
                            AVG_SUB_MONTHS * ONE_MONTH_DAYS)

Scenarios ==
    \/ \E months \in 1..MaxMonths, monthlyGrowthRate \in GrowthRates,
          testSubscriptionDays \in TestSubscriptionDays :
          SimBegin(curve.startTimestamp, months, monthlyGrowthRate,
                   testSubscriptionDays)
    \/ SimAddInitial
    \/ SimAddTest
    \/ SimMonthBegin
    \/ SimAddNew
    \/ SimSnapshot
    \/ SimReturn

SimQueries ==
    \E address \in {testAddress, subscriberAddress(1), "carol"},
       currentTimestamp \in {curve.startTimestamp - 1, curveEnd} :
        \/ CalculateRewardsCall(address, currentTimestamp)
        \/ CalculateROICall(address, currentTimestamp)

SimNext == PriorAdmissions \/ Scenarios \/ SimQueries

SimSpec == SimInit /\ [][SimNext]_vars

(***************************************************************************)
(* Properties                                                              *)
(***************************************************************************)
\* the sum of the numbers seq[lo..hi]
RECURSIVE RSum(_, _, _)
RSum(seq, lo, hi) ==
    IF lo > hi THEN Zero
    ELSE IF lo = hi THEN seq[lo]
    ELSE RAdd(RSum(seq, lo, (lo + hi) \div 2), RSum(seq, (lo + hi) \div 2 + 1, hi))

\* the rewardShares of the records held in the map, in insertion order
HeldShares ==
    [i \in 1..MapSize(state.subscribers) |->
        state.subscribers.entry[state.subscribers.order[i]].rewardShares]

\* The reward amount of an admission of subscriptionDays days, from the
\* configuration alone: payment * (1 - fees) * rewardBasisPoints / 10000.
ExpectedRewardAmount(subscriptionDays) ==
    RMul(RMul(Norm(ONE_MONTH_DAYS * tier.initialMintPrice
                     + subscriptionDays * tier.pricePerPeriod, ONE_MONTH_DAYS),
              Norm(MAX_BPS - fees.protocolBps - fees.clientBps, MAX_BPS)),
         Norm(tier.rewardBasisPoints, MAX_BPS))

ExpectedRewardAmounts ==
    [i \in 1..Len(log) |-> ExpectedRewardAmount(log[i].subscriptionDays)]

HasDuplicateAdmission ==
    \E i, j \in DOMAIN log : i < j /\ log[i].address = log[j].address

\* C1: state.totalShares equals the sum of rewardShares over the subscriber
\* records held in state.subscribers, after any sequence of addSubscriber calls.
C1_TotalSharesIsSumOfHeld ==
    state.totalShares = RSum(HeldShares, 1, Len(HeldShares))

\* C2: state.rewardPool equals the sum, over the addSubscriber calls made since
\* the state was created, of netPayment * rewardBasisPoints / 10000 recomputed
\* from each call's arguments.
C2_RewardPoolConserved ==
    state.rewardPool = RSum(ExpectedRewardAmounts, 1, Len(log))

C2_Witness ==
    /\ Len(log) = MaxCalls
    /\ RLt(Zero, state.rewardPool)
    /\ HasDuplicateAdmission

\* an addSubscriber call is the one step that extends the history
IsAdmission == Len(log') = Len(log) + 1

NonDecreasing ==
    /\ RLe(state.rewardPool, state'.rewardPool)
    /\ RLe(state.totalShares, state'.totalShares)
    /\ RLe(state.creatorBalance, state'.creatorBalance)
    /\ RLe(state.protocolEarnings, state'.protocolEarnings)
    /\ RLe(state.clientEarnings, state'.clientEarnings)

\* rewardBasisPoints, protocolBps and clientBps in 0..10000, prices >= 0,
\* minMultiplier >= 0
DocumentedRanges ==
    /\ tier.rewardBasisPoints \in 0..MAX_BPS
    /\ fees.protocolBps \in 0..MAX_BPS
    /\ fees.clientBps \in 0..MAX_BPS
    /\ tier.initialMintPrice >= 0
    /\ tier.pricePerPeriod >= 0
    /\ RLe(Zero, curve.minMultiplier)

FeesWithinPayment == fees.protocolBps + fees.clientBps <= MAX_BPS

\* C3 as stated: under a configuration in the documented ranges, rewardPool,
\* totalShares, creatorBalance, protocolEarnings and clientEarnings are each
\* non-decreasing across every addSubscriber call.
C3_MonotonicAsStated ==
    [][(IsAdmission /\ DocumentedRanges) => NonDecreasing]_vars

\* C3 amended: the same, for configurations whose protocolBps and clientBps
\* together do not exceed 10000.
C3_MonotonicWithinPayment ==
    [][(IsAdmission /\ DocumentedRanges /\ FeesWithinPayment) => NonDecreasing]_vars

C3_Witness ==
    /\ DocumentedRanges
    /\ FeesWithinPayment
    /\ Len(log) = MaxCalls
    /\ RLt(Zero, state.creatorBalance)
    /\ RLt(Zero, state.totalShares)
    /\ RLt(Zero, state.clientEarnings)

\* the subscription's length in seconds, from the stored record
StoredSeconds(address) ==
    RSub(state.subscribers.entry[address].expiresAt,
         RInt(state.subscribers.entry[address].subscriptionStart))

\* two stored subscribers admitted at the same timestamp, a for 720 days and
\* b for 360 days
LongAndShort(a, b) ==
    /\ MapHas(state.subscribers, a)
    /\ MapHas(state.subscribers, b)
    /\ state.subscribers.entry[a].subscriptionStart
         = state.subscribers.entry[b].subscriptionStart
    /\ StoredSeconds(a) = RInt(720 * 24 * 60 * 60)
    /\ StoredSeconds(b) = RInt(360 * 24 * 60 * 60)

\* C5 as stated: the rewardShares stored for a 24-month subscriber are exactly
\* twice those stored for a 12-month subscriber admitted at the same timestamp.
C5_TwiceAsStated ==
    \A a, b \in Addresses :
        LongAndShort(a, b) =>
            state.subscribers.entry[a].rewardShares
              = RMul(RInt(2), state.subscribers.entry[b].rewardShares)

\* C5 amended: the 24-month subscriber's rewardShares are twice the 12-month
\* subscriber's per unit of payment, rewardShares24 * totalSpent12 =
\* 2 * rewardShares12 * totalSpent24 (four times the shares when
\* initialMintPrice is 0), whatever the multiplier is.
C5_TwicePerUnitOfPayment ==
    \A a, b \in Addresses :
        LongAndShort(a, b) =>
            RMul(state.subscribers.entry[a].rewardShares,
                 state.subscribers.entry[b].totalSpent)
              = RMul(RMul(RInt(2), state.subscribers.entry[b].rewardShares),
                     state.subscribers.entry[a].totalSpent)

C5_Witness ==
    /\ tier.initialMintPrice > 0
    /\ \E a, b \in Addresses :
          /\ LongAndShort(a, b)
          /\ RLt(Zero, state.subscribers.entry[b].rewardShares)

\* the whole periods k with start + k * month <= timestamp < start + (k + 1) * month
PeriodsCovered == -2..(curve.numPeriods + 2)

InPeriod(timestamp, k) ==
    /\ curve.startTimestamp + k * ONE_MONTH_SECONDS <= timestamp
    /\ timestamp < curve.startTimestamp + (k + 1) * ONE_MONTH_SECONDS

\* C6: calculateMultiplier(startTimestamp + numPeriods * secondsPerMonth) is
\* minMultiplier; one period earlier it is formulaBase when formulaBase >=
\* minMultiplier; in general it is minMultiplier once numPeriods periods have
\* elapsed and max(formulaBase^(numPeriods - periodsElapsed), minMultiplier)
\* before.
C6_MultiplierBoundary ==
    \A i \in DOMAIN log :
        /\ log[i].timestamp = curve.startTimestamp + curve.numPeriods * ONE_MONTH_SECONDS
             => log[i].multiplier = curve.minMultiplier
        /\ ( /\ log[i].timestamp
                  = curve.startTimestamp + (curve.numPeriods - 1) * ONE_MONTH_SECONDS
             /\ RLe(curve.minMultiplier, curve.formulaBase) )
             => log[i].multiplier = curve.formulaBase
        /\ \A k \in PeriodsCovered :
              InPeriod(log[i].timestamp, k) =>
                  log[i].multiplier =
                      IF k >= curve.numPeriods THEN curve.minMultiplier
                      ELSE RMax(RPow(curve.formulaBase, curve.numPeriods - k),
                                curve.minMultiplier)
        /\ \E k \in PeriodsCovered : InPeriod(log[i].timestamp, k)

C6_Witness ==
    /\ curve.formulaBase # curve.minMultiplier
    /\ RLe(curve.minMultiplier, curve.formulaBase)
    /\ \E i, j \in DOMAIN log :
          /\ log[i].timestamp = curveEnd
          /\ log[i].multiplier = curve.minMultiplier
          /\ log[j].timestamp = curveEnd - ONE_MONTH_SECONDS
          /\ log[j].multiplier = curve.formulaBase

AdmittedAddresses == {log[i].address : i \in DOMAIN log}

\* C7: calculateRewards returns 0 for an address never admitted and for a
\* timestamp before the subscriber's subscriptionStart; calculateROI of an
\* address never admitted returns {roi: 0, spent: 0, rewards: 0}.
C7_ZeroForUnknownOrNotStarted ==
    /\ ( /\ call.op = "calculateRewards"
         /\ call.address \notin AdmittedAddresses )
         => call.ret = Zero
    /\ ( /\ call.op = "calculateRewards"
         /\ call.address \in AdmittedAddresses
         /\ call.timestamp < state.subscribers.entry[call.address].subscriptionStart )
         => call.ret = Zero
    /\ ( /\ call.op = "calculateROI"
         /\ call.address \notin AdmittedAddresses )
         => call.ret = [roi |-> Zero, spent |-> Zero, rewards |-> Zero]

\* a query before the start of a subscriber who holds a positive part of a
\* positive pool
C7_Witness ==
    /\ call.op = "calculateRewards"
    /\ call.address \in AdmittedAddresses
    /\ call.timestamp < state.subscribers.entry[call.address].subscriptionStart
    /\ RLt(Zero, state.subscribers.entry[call.address].rewardShares)
    /\ RLt(Zero, state.rewardPool)

\* the admissions of the running scenario made at month m's timestamp
AdmittedInMonth(m) ==
    Cardinality({i \in DOMAIN log :
                    log[i].timestamp = sim.startTimestamp + m * ONE_MONTH_SECONDS})

\* the regular (non-test) subscribers admitted before month m's timestamp
RegularBeforeMonth(m) ==
    Cardinality({i \in DOMAIN log :
                    /\ log[i].address # testAddress
                    /\ log[i].timestamp < sim.startTimestamp + m * ONE_MONTH_SECONDS})

\* floor(R * monthlyGrowthRate)
GrowthOf(R) == (R * sim.monthlyGrowthRate.num) \div sim.monthlyGrowthRate.den

\* C4: in simulateScenario the number of subscribers admitted in month m is
\* floor(R * monthlyGrowthRate), R the regular (non-test) subscriber count at
\* the end of the previous month, the initial cohort's size for m = 1.
C4_GrowthOnRegularCount ==
    sim.pc = "loop" =>
        \A m \in 1..Len(sim.results) :
            AdmittedInMonth(m) = GrowthOf(RegularBeforeMonth(m))

\* C8: simulateScenario returns exactly `months` snapshots, in order, the
\* snapshot at index i (from 0) with month field i + 1.
C8_ScenarioLength ==
    call.op = "simulateScenario" =>
        /\ Len(call.ret) = call.months
        /\ \A i \in 1..Len(call.ret) : call.ret[i].month = i

C8_Witness ==
    /\ call.op = "simulateScenario"
    /\ call.months = MaxMonths
    /\ call.monthlyGrowthRate = RInt(1)

SameArguments(c, d) ==
    /\ c.startTimestamp = d.startTimestamp
    /\ c.months = d.months
    /\ c.monthlyGrowthRate = d.monthlyGrowthRate
    /\ c.testSubscriptionDays = d.testSubscriptionDays

\* C9: when simulateScenario returns, the subscriber map holds exactly the
\* subscribers admitted in this run, the cumulative totals count this run's
\* admissions only, and the snapshots are those of the first run made with
\* the same arguments.
C9_FreshRun ==
    call.op = "simulateScenario" =>
        /\ DOMAIN state.subscribers.entry = AdmittedAddresses
        /\ MapSize(state.subscribers) = Len(log)
        /\ state.rewardPool = RSum(ExpectedRewardAmounts, 1, Len(log))
        /\ state.totalShares = RSum(HeldShares, 1, Len(HeldShares))
        /\ (firstRun.done /\ SameArguments(firstRun.call, call))
             => firstRun.call.ret = call.ret

\* a run that replaced a state holding subscribers and repeats the arguments of
\* the first run, which started from the empty state
C9_Witness ==
    /\ call.op = "simulateScenario"
    /\ call.replaced
    /\ firstRun.done
    /\ ~firstRun.call.replaced
    /\ SameArguments(firstRun.call, call)
    /\ call.monthlyGrowthRate = RInt(1)

\* C10: calculateRewards and calculateROI leave the whole state unchanged; the
\* state changes only in addSubscriber and in simulateScenario's reset.
C10_QueriesLeaveState ==
    [][ /\ (call'.op \in {"calculateRewards", "calculateROI"}) => state' = state
        /\ state' # state =>
              call'.op \in {"addSubscriber", "simulateScenario:addSubscriber",
                            "simulateScenario:reset"} ]_vars

C10_Witness ==
    /\ call.op = "calculateRewards"
    /\ RLt(Zero, call.ret)
    /\ MapSize(state.subscribers) > INITIAL_SUBSCRIBERS

\* the last call is calculateROI(addr, t) of a subscriber held in the map who
\* paid a positive amount
RoiOfAdmitted ==
    /\ call.op = "calculateROI"
    /\ MapHas(state.subscribers, call.address)
    /\ RLt(Zero, state.subscribers.entry[call.address].totalSpent)

\* calculateRewards(addr, t) for the last call's arguments
RewardsOfCall == calculateRewards(state, call.address, call.timestamp)

\* C11: for an admitted subscriber with totalSpent > 0 and any t, roi is 0 if
\* calculateRewards(addr, t) equals totalSpent, roi is positive exactly when
\* the rewards exceed totalSpent and negative exactly when they are below it.
C11_RoiSign ==
    RoiOfAdmitted =>
        /\ RewardsOfCall = state.subscribers.entry[call.address].totalSpent
             => call.ret.roi = Zero
        /\ RLt(Zero, call.ret.roi)
             <=> RLt(state.subscribers.entry[call.address].totalSpent, RewardsOfCall)
        /\ RLt(call.ret.roi, Zero)
             <=> RLt(RewardsOfCall, state.subscribers.entry[call.address].totalSpent)

\* a subscriber whose rewards are exactly what they paid
C11_Witness ==
    /\ RoiOfAdmitted
    /\ RewardsOfCall = state.subscribers.entry[call.address].totalSpent
    /\ call.ret.roi = Zero

\* a subscriber who gains, beside one who loses
RoiGainAndLoss ==
    /\ RoiOfAdmitted
    /\ RLt(Zero, call.ret.roi)
    /\ \E other \in Addresses :
          /\ MapHas(state.subscribers, other)
          /\ RLt(calculateROI(state, other, call.timestamp).roi, Zero)

\* What an admission of subscriptionDays days pays and how the payment is
\* divided, from the configuration alone.
ExpectedPayment(subscriptionDays) ==
    Norm(ONE_MONTH_DAYS * tier.initialMintPrice
           + subscriptionDays * tier.pricePerPeriod, ONE_MONTH_DAYS)

ExpectedProtocolFee(subscriptionDays) ==
    RMul(ExpectedPayment(subscriptionDays), Norm(fees.protocolBps, MAX_BPS))

ExpectedClientFee(subscriptionDays) ==
    RMul(ExpectedPayment(subscriptionDays), Norm(fees.clientBps, MAX_BPS))

\* payment * (1 - fees) * (1 - rewardBasisPoints / 10000)
ExpectedCreatorShare(subscriptionDays) ==
    RMul(RMul(ExpectedPayment(subscriptionDays),
              Norm(MAX_BPS - fees.protocolBps - fees.clientBps, MAX_BPS)),
         Norm(MAX_BPS - tier.rewardBasisPoints, MAX_BPS))

\* rewardAmount * multiplier * subscriptionDays / 360, for the history's entry e
ExpectedShares(e) ==
    RMul(RMul(ExpectedRewardAmount(e.subscriptionDays), e.multiplier),
         Norm(e.subscriptionDays, AVG_SUB_MONTHS * ONE_MONTH_DAYS))

\* the record the history's entry e leaves in the map
ExpectedRecord(e) ==
    [tierId            |-> 1,
     subscriptionStart |-> e.timestamp,
     expiresAt         |-> RInt(e.timestamp + e.subscriptionDays * 24 * 60 * 60),
     rewardShares      |-> ExpectedShares(e),
     totalSpent        |-> ExpectedPayment(e.subscriptionDays)]

\* the last admission of address a in the history
LastAdmission(a) ==
    CHOOSE i \in DOMAIN log :
        /\ log[i].address = a
        /\ \A j \in DOMAIN log : log[j].address = a => j <= i

\* C12: once an address has been admitted again, the map holds one record per
\* address admitted, that of the address's latest call, its size is the number
\* of distinct addresses, and totalShares, rewardPool, creatorBalance,
\* protocolEarnings and clientEarnings each hold the amounts of every
\* admission made, those of the overwritten records included.
C12_DuplicateOverwrites ==
    HasDuplicateAdmission =>
        /\ DOMAIN state.subscribers.entry = AdmittedAddresses
        /\ MapSize(state.subscribers) = Cardinality(AdmittedAddresses)
        /\ MapSize(state.subscribers) < Len(log)
        /\ \A a \in AdmittedAddresses :
              state.subscribers.entry[a] = ExpectedRecord(log[LastAdmission(a)])
        /\ state.totalShares
             = RSum([i \in DOMAIN log |-> ExpectedShares(log[i])], 1, Len(log))
        /\ state.rewardPool = RSum(ExpectedRewardAmounts, 1, Len(log))
        /\ state.creatorBalance
             = RSum([i \in DOMAIN log |-> ExpectedCreatorShare(log[i].subscriptionDays)],
                    1, Len(log))
        /\ state.protocolEarnings
             = RSum([i \in DOMAIN log |-> ExpectedProtocolFee(log[i].subscriptionDays)],
                    1, Len(log))
        /\ state.clientEarnings
             = RSum([i \in DOMAIN log |-> ExpectedClientFee(log[i].subscriptionDays)],
                    1, Len(log))

\* an address admitted twice with different lengths at different timestamps,
\* each admission adding shares and fees
C12_Witness ==
    /\ \E i, j \in DOMAIN log :
          /\ i < j
          /\ log[i].address = log[j].address
          /\ log[i].subscriptionDays # log[j].subscriptionDays
          /\ log[i].timestamp # log[j].timestamp
          /\ RLt(Zero, ExpectedShares(log[i]))
          /\ RLt(Zero, ExpectedShares(log[j]))
    /\ MapSize(state.subscribers) = 1
    /\ RLt(Zero, state.protocolEarnings)

\* the non-test admissions of the running scenario made up to month m's
\* timestamp
RegularUpToMonth(m) ==
    Cardinality({i \in DOMAIN log :
                    /\ log[i].address # testAddress
                    /\ log[i].timestamp <= sim.startTimestamp + m * ONE_MONTH_SECONDS})

\* C13: while simulateScenario runs, the addresses it has admitted are pairwise
\* distinct, after each admission the map's size is the number of
\* addSubscriber calls made in the run, and each snapshot's subscribers field
\* is the number of non-test admissions made up to its month.
C13_DistinctAddresses ==
    sim.pc # "idle" =>
        /\ Cardinality(AdmittedAddresses) = Len(log)
        /\ MapSize(state.subscribers) = Len(log)
        /\ \A i \in DOMAIN log : log[i].sizeAfter = i
        /\ \A m \in DOMAIN sim.results :
              sim.results[m].subscribers = RegularUpToMonth(m)

\* the last snapshot of the longest scenario at the highest growth rate taken:
\* the cohort, the test subscriber and newcomers of every month are in the map
C13_Witness ==
    /\ sim.pc = "loop"
    /\ Len(sim.results) = MaxMonths
    /\ sim.monthlyGrowthRate = RInt(1)
    /\ testAddress \in AdmittedAddresses
    /\ \A m \in 1..MaxMonths : AdmittedInMonth(m) > 0
    /\ sim.results[MaxMonths].subscribers > INITIAL_SUBSCRIBERS

\* a snapshot has just been pushed: the state is the one it was taken on
SnapshotTaken == sim.pc = "loop" /\ Len(sim.results) > 0

LastSnapshot == sim.results[Len(sim.results)]

\* the timestamp the last snapshot's queries were made at
SnapshotTimestamp == sim.startTimestamp + LastSnapshot.month * ONE_MONTH_SECONDS

\* C14: for every snapshot simulateScenario pushes, every subscriber in the map
\* was admitted no later than the snapshot's query timestamp, and when
\* totalShares > 0 the snapshot's subscriberRewards equals state.rewardPool.
C14_SnapshotRewardsArePool ==
    SnapshotTaken =>
        /\ \A a \in DOMAIN state.subscribers.entry :
              state.subscribers.entry[a].subscriptionStart <= SnapshotTimestamp
        /\ RLt(Zero, state.totalShares)
             => LastSnapshot.subscriberRewards = state.rewardPool

\* a snapshot over a positive pool with subscribers admitted at the query's
\* own timestamp and earlier ones
C14_Witness ==
    /\ SnapshotTaken
    /\ Len(sim.results) = MaxMonths
    /\ RLt(Zero, state.totalShares)
    /\ RLt(Zero, state.rewardPool)
    /\ LastSnapshot.subscriberRewards = state.rewardPool
    /\ \E a \in DOMAIN state.subscribers.entry :
          state.subscribers.entry[a].subscriptionStart = SnapshotTimestamp
    /\ state.subscribers.entry[testAddress].subscriptionStart < SnapshotTimestamp

\* the gross payments of the admissions made so far
ExpectedPayments ==
    [i \in 1..Len(log) |-> ExpectedPayment(log[i].subscriptionDays)]

\* C15: after any sequence of addSubscriber calls, protocolEarnings +
\* clientEarnings + creatorBalance + rewardPool equals the sum of the gross
\* payments of all admissions made so far, and the totalSpent recorded for an
\* address is the gross payment of its latest admission.
C15_PaymentsConserved ==
    /\ RAdd(RAdd(RAdd(state.protocolEarnings, state.clientEarnings),
                 state.creatorBalance),
            state.rewardPool)
         = RSum(ExpectedPayments, 1, Len(log))
    /\ \A a \in AdmittedAddresses :
          state.subscribers.entry[a].totalSpent
            = ExpectedPayments[LastAdmission(a)]

\* admissions of different payments under a configuration that gives each of
\* the four accumulators a positive part
C15_Witness ==
    /\ Len(log) = MaxCalls
    /\ \E i, j \in DOMAIN log : ExpectedPayments[i] # ExpectedPayments[j]
    /\ RLt(Zero, state.protocolEarnings)
    /\ RLt(Zero, state.clientEarnings)
    /\ RLt(Zero, state.creatorBalance)
    /\ RLt(Zero, state.rewardPool)

\* the same split where the fees exceed the payment: the creator's and the
\* pool's parts are negative
NegativeNetSplit ==
    /\ Len(log) = MaxCalls
    /\ RLt(state.rewardPool, Zero)
    /\ RLt(Zero, state.protocolEarnings)

====
